---- MODULE Spec2Model ----
\* Model of the level parser Game::try_from_file (paku/src/pacman.rs).
\* Characters are one-character strings, coordinates are zero-based as in
\* the source, sequences are one-based (rows[y + 1][x + 1] is rows[y][x]).
EXTENDS Integers, Sequences, FiniteSets, TLC

VARIABLES text, readable, run, pc, rows, width, height, consumed,
          ghost_top_left, pacman_loc, warp_counts, pending, result, game, first,
          delivered

vars == <<text, readable, run, pc, rows, width, height, consumed,
          ghost_top_left, pacman_loc, warp_counts, pending, result, game, first,
          delivered>>

\* ------------------------------------------------------------------ bounds
MaxTinyLen == 4
MaxGX == 1
MaxGY == 1
MaxDigit == 2
MaxWarpCells == 4

\* ------------------------------------------------------- program constants
ghost_block_w == 8
ghost_block_h == 5

None == <<>>
NoGame == [none |-> TRUE]

ErrorKinds ==
  {"FileRead", "LevelEmpty", "LevelNotRectangular", "NoPacSpawn",
   "MultiplePacSpawns", "InvalidPacSpawn", "NoGhostSpawn",
   "MultipleGhostSpawns", "InvalidGhostSpawn", "InvalidWarp",
   "InvalidCharacters", "ConversionToArray"}

\* ------------------------------------------------------------ str::lines
\* The positions of the "\n" characters of t, ascending.
Newlines(t) ==
  LET nl == {i \in 1..Len(t) : t[i] = "\n"}
  IN [k \in 1..Cardinality(nl) |->
        CHOOSE i \in nl : Cardinality({j \in nl : j < i}) = k - 1]

\* A line that ended in "\n" loses one "\r" before it; an unterminated last
\* line is kept as it is.
StripCR(l) == IF l # <<>> /\ l[Len(l)] = "\r" THEN SubSeq(l, 1, Len(l) - 1) ELSE l

\* One line per "\n", plus the unterminated rest of the text if not empty.
Lines(t) ==
  LET nl == Newlines(t)
      n == Len(nl)
      last == IF n = 0 THEN 0 ELSE nl[n]
      terminated == [k \in 1..n |->
                       StripCR(SubSeq(t, (IF k = 1 THEN 1 ELSE nl[k - 1] + 1), nl[k] - 1))]
  IN IF last < Len(t) THEN Append(terminated, SubSeq(t, last + 1, Len(t)))
     ELSE terminated

\* ------------------------------------------------------------- ingestion
SatSub(a, b) == IF a >= b THEN a - b ELSE 0

\* Mutant: the width == 0 test is missing.
IngestErrorNoWidthTest(rs) ==
  IF rs = <<>> THEN "LevelEmpty"
  ELSE IF \E i \in 1..Len(rs) : Len(rs[i]) # Len(rs[1]) THEN "LevelNotRectangular"
  ELSE "none"

IngestError(rs) ==
  IF rs = <<>> THEN "LevelEmpty"
  ELSE IF Len(rs[1]) = 0 THEN "LevelEmpty"
  ELSE IF \E i \in 1..Len(rs) : Len(rs[i]) # Len(rs[1]) THEN "LevelNotRectangular"
  ELSE "none"

\* ------------------------------------------------------- ghost-spawn scan
RECURSIVE WindowRow(_, _, _, _, _)
\* The inner loop over xx for one yy: "row" when every cell read was '@'.
\* A read outside the vectors is an index panic.
WindowRow(rs, x, y, yy, xx) ==
  IF xx = ghost_block_w THEN "row"
  ELSE IF y + yy >= Len(rs) THEN "panic"
  ELSE IF x + xx >= Len(rs[y + yy + 1]) THEN "panic"
  ELSE IF rs[y + yy + 1][x + xx + 1] # "@" THEN "nomatch"
  ELSE WindowRow(rs, x, y, yy, xx + 1)

RECURSIVE WindowCheck(_, _, _, _)
\* The all_at loops: the window is read row-major up to the first cell that
\* is not '@'.
WindowCheck(rs, x, y, yy) ==
  IF yy = ghost_block_h THEN "match"
  ELSE LET r == WindowRow(rs, x, y, yy, 0)
       IN IF r = "row" THEN WindowCheck(rs, x, y, yy + 1) ELSE r

MarkBlock(cons, x, y) ==
  [r \in 1..Len(cons) |->
     [c \in 1..Len(cons[r]) |->
        IF /\ r - 1 >= y /\ r - 1 < y + ghost_block_h
           /\ c - 1 >= x /\ c - 1 < x + ghost_block_w
        THEN TRUE ELSE cons[r][c]]]

RECURSIVE GhostScanRow(_, _, _, _, _, _)
\* The loop over x for one y.
GhostScanRow(rs, w, y, x, gtl, cons) ==
  IF x > SatSub(w, ghost_block_w) THEN [status |-> "end", gtl |-> gtl, cons |-> cons]
  ELSE LET wc == WindowCheck(rs, x, y, 0)
       IN IF wc = "panic" THEN [status |-> "Panic", gtl |-> gtl, cons |-> cons]
          ELSE IF wc = "match"
          THEN IF gtl # None
               THEN [status |-> "MultipleGhostSpawns", gtl |-> gtl, cons |-> cons]
               ELSE GhostScanRow(rs, w, y, x + 1, <<x, y>>, MarkBlock(cons, x, y))
          ELSE GhostScanRow(rs, w, y, x + 1, gtl, cons)

RECURSIVE GhostScan(_, _, _, _, _, _)
\* The loop over y, from y on.
GhostScan(rs, w, h, y, gtl, cons) ==
  IF y > SatSub(h, ghost_block_h) THEN [status |-> "end", gtl |-> gtl, cons |-> cons]
  ELSE LET r == GhostScanRow(rs, w, y, 0, gtl, cons)
       IN IF r.status # "end" THEN r
          ELSE GhostScan(rs, w, h, y + 1, r.gtl, r.cons)

\* --------------------------------------------------------- pac-spawn scan
RECURSIVE PacScanRowNoClaim(_, _, _, _, _, _)
\* Mutant: the pair test ignores the consumed overlay.
PacScanRowNoClaim(rs, w, y, x, loc, cons) ==
  IF x >= SatSub(w, 1) THEN [status |-> "end", loc |-> loc, cons |-> cons]
  ELSE IF rs[y + 1][x + 1] = "$" /\ rs[y + 1][x + 2] = "$"
       THEN IF loc # None
            THEN [status |-> "MultiplePacSpawns", loc |-> loc, cons |-> cons]
            ELSE PacScanRowNoClaim(rs, w, y, x + 1, <<x, y>>,
                            [cons EXCEPT ![y + 1][x + 1] = TRUE, ![y + 1][x + 2] = TRUE])
       ELSE PacScanRowNoClaim(rs, w, y, x + 1, loc, cons)

RECURSIVE PacScanRow(_, _, _, _, _, _)
\* The loop over x for one y: the pairs (x, y)-(x+1, y), x < width - 1.
PacScanRow(rs, w, y, x, loc, cons) ==
  IF x >= SatSub(w, 1) THEN [status |-> "end", loc |-> loc, cons |-> cons]
  ELSE IF /\ ~cons[y + 1][x + 1] /\ ~cons[y + 1][x + 2]
          /\ rs[y + 1][x + 1] = "$" /\ rs[y + 1][x + 2] = "$"
       THEN IF loc # None
            THEN [status |-> "MultiplePacSpawns", loc |-> loc, cons |-> cons]
            ELSE PacScanRow(rs, w, y, x + 1, <<x, y>>,
                            [cons EXCEPT ![y + 1][x + 1] = TRUE, ![y + 1][x + 2] = TRUE])
       ELSE PacScanRow(rs, w, y, x + 1, loc, cons)

RECURSIVE PacScan(_, _, _, _, _, _)
\* The loop over y, from y on.
PacScan(rs, w, h, y, loc, cons) ==
  IF y >= h THEN [status |-> "end", loc |-> loc, cons |-> cons]
  ELSE LET r == PacScanRow(rs, w, y, 0, loc, cons)
       IN IF r.status # "end" THEN r
          ELSE PacScan(rs, w, h, y + 1, r.loc, r.cons)

StrayChar(rs, cons, ch) ==
  \E y \in 1..Len(rs) : \E x \in 1..Len(rs[y]) : rs[y][x] = ch /\ ~cons[y][x]

\* ------------------------------------------------------------------ warps
AsciiDigits == {"0", "1", "2", "3", "4", "5", "6", "7", "8", "9"}

ToDigit(c) ==
  CASE c = "0" -> 0 [] c = "1" -> 1 [] c = "2" -> 2 [] c = "3" -> 3
    [] c = "4" -> 4 [] c = "5" -> 5 [] c = "6" -> 6 [] c = "7" -> 7
    [] c = "8" -> 8 [] c = "9" -> 9

WarpCells(rs, cons) ==
  {p \in (1..Len(rs)) \X (1..Len(rs[1])) :
     ~cons[p[1]][p[2]] /\ rs[p[1]][p[2]] \in AsciiDigits}

WarpCounts(rs, cons) ==
  LET cells == WarpCells(rs, cons)
      ids == {ToDigit(rs[p[1]][p[2]]) : p \in cells}
  IN [id \in ids |-> Cardinality({p \in cells : ToDigit(rs[p[1]][p[2]]) = id})]

MarkWarps(rs, cons) ==
  [r \in 1..Len(cons) |->
     [c \in 1..Len(cons[r]) |-> cons[r][c] \/ rs[r][c] \in AsciiDigits]]

\* Mutant: only a count below two is rejected.
CountErrorBelowTwo(id, count) == IF count < 2 THEN "InvalidWarp" ELSE "none"

\* One iteration of the loop over warp_counts.iter().
CountError(id, count) == IF count # 2 THEN "InvalidWarp" ELSE "none"

\* Mutant: the loop is left after its first iteration.
VisitFirstOnly(pend, id) == {}

\* The entries the iterator has still to visit once it has yielded id.
StillToVisit(pend, id) == pend \ {id}

RECURSIVE SortedIds(_)
SortedIds(S) ==
  IF S = {} THEN <<>>
  ELSE LET m == CHOOSE a \in S : \A b \in S : a <= b
       IN <<m>> \o SortedIds(S \ {m})

IdsError(counts) ==
  LET ids == SortedIds(DOMAIN counts)
  IN IF ids[1] # 1 THEN "InvalidWarp"
     ELSE IF \E i \in 1..Len(ids) : ids[i] # i THEN "InvalidWarp"
     ELSE IF Len(ids) > 9 THEN "InvalidWarp"
     ELSE "none"

\* ---------------------------------------------------------------- board
ValidChars == {" ", "#", "-", "!", "$", "@"} \cup AsciiDigits

\* Mutant: the codes of the dot and the pellet are swapped.
CellValueSwapped(c) ==
  CASE c = " " -> 0
    [] c = "#" -> 1
    [] c = "-" -> 3
    [] c = "!" -> 2
    [] c = "$" -> 0
    [] c = "@" -> 0
    [] c \in AsciiDigits -> 0 - ToDigit(c)

CellValue(c) ==
  CASE c = " " -> 0
    [] c = "#" -> 1
    [] c = "-" -> 2
    [] c = "!" -> 3
    [] c = "$" -> 0
    [] c = "@" -> 0
    [] c \in AsciiDigits -> 0 - ToDigit(c)

\* Some cell falls to the default arm of the match.
FlatError(rs, w, h) ==
  IF \E y \in 1..h : \E x \in 1..w : rs[y][x] \notin ValidChars
  THEN "InvalidCharacters" ELSE "none"

\* The flat vector, row-major.
Flat(rs, w, h) ==
  [i \in 1..(w * h) |-> CellValue(rs[((i - 1) \div w) + 1][((i - 1) % w) + 1])]

\* Array2::from_shape_vec((height, width), flat)
ShapeError(h, w, flat) == IF Len(flat) # h * w THEN "ConversionToArray" ELSE "none"

FromShapeVec(h, w, flat) == [y \in 1..h |-> [x \in 1..w |-> flat[(y - 1) * w + x]]]

\* center of 8x5 block: top_left + (3,2)
GhostCenter(gtl) == <<gtl[1] + 3, gtl[2] + 2>>

MakeGame(gs, pl, board) ==
  [pacman_loc |-> pl, blinky_loc |-> gs, pinky_loc |-> gs, inky_loc |-> gs,
   clyde_loc |-> gs, ghost_spawn |-> gs, board |-> board]

\* ------------------------------------------------------------ the inputs
\* File contents the parser is run on: every short text over a small
\* alphabet, narrow and flat grids, the 12x9 fixture with its scenarios, and
\* generated grids combining a ghost layout, a '$' pattern, a digit pattern
\* and an optional unrecognized character.
RECURSIVE Unlines(_)
Unlines(rs) == IF rs = <<>> THEN <<>> ELSE rs[1] \o <<"\n">> \o Unlines(Tail(rs))

Blank(w, h) == [y \in 1..h |-> [x \in 1..w |-> " "]]

Paint(g, cells, ch) ==
  [y \in 1..Len(g) |->
     [x \in 1..Len(g[y]) |-> IF <<x - 1, y - 1>> \in cells THEN ch ELSE g[y][x]]]

Rect(x0, y0, w, h) == {<<x, y>> : x \in x0..(x0 + w - 1), y \in y0..(y0 + h - 1)}

DigitChar(d) ==
  CASE d = 0 -> "0" [] d = 1 -> "1" [] d = 2 -> "2" [] d = 3 -> "3" [] d = 4 -> "4"
    [] d = 5 -> "5" [] d = 6 -> "6" [] d = 7 -> "7" [] d = 8 -> "8" [] d = 9 -> "9"

RECURSIVE PaintDigits(_, _, _)
\* cells is a sequence of coordinates, ds the digits written to them.
PaintDigits(g, cells, ds) ==
  IF ds = <<>> THEN g
  ELSE PaintDigits(Paint(g, {cells[1]}, DigitChar(ds[1])), Tail(cells), Tail(ds))

TinyAlphabet == {"@", " ", "\n", "\r"}
TinyTexts == UNION {[1..n -> TinyAlphabet] : n \in 0..MaxTinyLen}

NarrowHeight == 6
NarrowTexts ==
  {Unlines([y \in 1..NarrowHeight |-> <<col[y]>>]) : col \in [1..NarrowHeight -> {"@", " "}]}

FlatTexts ==
  {Unlines(<<[x \in 1..9 |-> IF x >= a /\ x <= b THEN "@" ELSE " "]>>) :
     a \in 1..9, b \in 0..9}

Border(w, h) ==
  {<<x, y>> \in Rect(0, 0, w, h) : x = 0 \/ y = 0 \/ x = w - 1 \/ y = h - 1}

Fixture ==
  Paint(Paint(Paint(Blank(12, 9), Border(12, 9), "#"), Rect(1, 2, 8, 5), "@"),
        {<<7, 7>>, <<8, 7>>}, "$")

FixtureScenarios ==
  {"base", "nopac", "lonepac", "gap", "warp13", "badchar", "warp12", "nine"}

NineCells ==
  [i \in 1..18 |-> IF i <= 10 THEN <<i, 1>>
                   ELSE IF i <= 15 THEN <<9, i - 9>> ELSE <<10, i - 14>>]

FixtureGrid(sc) ==
  CASE sc = "base" -> Fixture
    [] sc = "nopac" -> Paint(Fixture, {<<7, 7>>, <<8, 7>>}, " ")
    [] sc = "lonepac" -> Paint(Fixture, {<<2, 7>>}, "$")
    [] sc = "gap" -> Paint(Fixture, {<<4, 4>>}, " ")
    [] sc = "warp13" ->
         PaintDigits(Fixture, <<<<1, 1>>, <<2, 1>>, <<3, 1>>, <<4, 1>>>>, <<1, 1, 3, 3>>)
    [] sc = "badchar" -> Paint(Fixture, {<<5, 1>>}, "x")
    [] sc = "warp12" ->
         PaintDigits(Fixture, <<<<1, 1>>, <<10, 1>>, <<10, 6>>, <<1, 7>>>>, <<1, 2, 1, 2>>)
    [] sc = "nine" ->
         PaintDigits(Fixture, NineCells, [i \in 1..18 |-> ((i - 1) % 9) + 1])

GhostLayouts == {"ok", "none", "gap", "wide", "tall", "two", "stray"}

TopRows == 3

GhostCells(v, gx, gy) ==
  LET top == TopRows + gy
  IN CASE v \in {"ok", "stray"} -> Rect(gx, top, 8, 5)
       [] v = "none" -> {}
       [] v = "gap" -> Rect(gx, top, 8, 5) \ {<<gx + 2, top + 1>>}
       [] v = "wide" -> Rect(gx, top, 9, 5)
       [] v = "tall" -> Rect(gx, top, 8, 6)
       [] v = "two" -> Rect(gx, top, 8, 5) \cup Rect(gx, top + 6, 8, 5)

GridW(gx) == gx + 9
GridH(v, gy) == TopRows + gy + (CASE v = "tall" -> 6 [] v = "two" -> 11 [] OTHER -> 5)

PacPatterns ==
  {"none", "pair", "lone", "triple", "quad", "twopairs", "vertical",
   "pairlone", "lonepair", "pairbelow", "pairend"}

PacCells(v, w) ==
  CASE v = "none" -> {}
    [] v = "pair" -> {<<1, 0>>, <<2, 0>>}
    [] v = "lone" -> {<<1, 0>>}
    [] v = "triple" -> {<<0, 0>>, <<1, 0>>, <<2, 0>>}
    [] v = "quad" -> {<<0, 0>>, <<1, 0>>, <<2, 0>>, <<3, 0>>}
    [] v = "twopairs" -> {<<0, 0>>, <<1, 0>>, <<3, 0>>, <<4, 0>>}
    [] v = "vertical" -> {<<1, 0>>, <<1, 1>>}
    [] v = "pairlone" -> {<<0, 0>>, <<1, 0>>, <<3, 1>>}
    [] v = "lonepair" -> {<<0, 0>>, <<2, 0>>, <<3, 0>>}
    [] v = "pairbelow" -> {<<1, 0>>, <<2, 0>>, <<2, 1>>}
    [] v = "pairend" -> {<<w - 2, 1>>, <<w - 1, 1>>}

WarpPatterns == UNION {[1..n -> 0..MaxDigit] : n \in 0..MaxWarpCells}

ExtraChars == {" ", "x"}

\* Rows 0-1 hold the '$' pattern and, at (5..7, 0), one of each plain tile;
\* row 2 holds the digits, the extra character and the stray '@'.
Generated(v, gx, gy, pv, wp, ex) ==
  LET w == GridW(gx)
      h == GridH(v, gy)
      g0 == Paint(Blank(w, h), GhostCells(v, gx, gy), "@")
      g1 == Paint(g0, PacCells(pv, w), "$")
      g2 == Paint(Paint(Paint(g1, {<<5, 0>>}, "#"), {<<6, 0>>}, "-"), {<<7, 0>>}, "!")
      g3 == PaintDigits(g2, [i \in 1..Len(wp) |-> <<i - 1, 2>>], wp)
      g4 == Paint(g3, {<<w - 2, 2>>}, ex)
  IN IF v = "stray" THEN Paint(g4, {<<w - 1, 2>>}, "@") ELSE g4

\* Every ghost layout with every '$' pattern, and every digit pattern on the
\* layouts and '$' patterns that reach the warp stage.
Layouts ==
  {<<"ok", gx, gy>> : gx \in 0..MaxGX, gy \in 0..MaxGY}
  \cup {<<v, 0, 0>> : v \in GhostLayouts \ {"ok"}}

GeneratedParams ==
  {<<l, pv, wp, ex>> : l \in Layouts, pv \in PacPatterns,
                       wp \in {<< >>, <<1>>}, ex \in ExtraChars}
  \cup {<<<<"ok", 0, 0>>, "pair", wp, " ">> : wp \in WarpPatterns}

GeneratedTexts ==
  {Unlines(Generated(q[1][1], q[1][2], q[1][3], q[2], q[3], q[4])) : q \in GeneratedParams}

Texts ==
  TinyTexts \cup NarrowTexts \cup FlatTexts
  \cup {Unlines(FixtureGrid(sc)) : sc \in FixtureScenarios} \cup GeneratedTexts

Init ==
  /\ \/ readable = TRUE /\ text \in Texts
     \/ readable = FALSE /\ text = <<>>
  /\ run = 1
  /\ pc = "read"
  /\ rows = <<>> /\ width = 0 /\ height = 0 /\ consumed = <<>>
  /\ ghost_top_left = None /\ pacman_loc = None
  /\ warp_counts = <<>> /\ pending = {}
  /\ result = "none" /\ game = NoGame /\ first = NoGame
  /\ delivered = "none"

Finish(r) ==
  /\ pc' = "done"
  /\ result' = r

ReadLevel ==
  /\ pc = "read"
  /\ IF ~readable
     THEN /\ Finish("FileRead")
          /\ UNCHANGED <<rows, width, height, consumed>>
     ELSE /\ rows' = Lines(text)
          /\ IF IngestError(rows') # "none"
             THEN /\ Finish(IngestError(rows'))
                  /\ UNCHANGED <<width, height, consumed>>
             ELSE /\ width' = Len(rows'[1])
                  /\ height' = Len(rows')
                  /\ consumed' = [r \in 1..height' |-> [c \in 1..width' |-> FALSE]]
                  /\ pc' = "ghost"
                  /\ UNCHANGED result
  /\ UNCHANGED <<text, readable, run, ghost_top_left, pacman_loc, warp_counts, pending, game, first, delivered>>

FindGhostSpawn ==
  /\ pc = "ghost"
  /\ \E s \in {GhostScan(rows, width, height, 0, None, consumed)} :
        IF s.status # "end"
        THEN /\ Finish(s.status)
             /\ UNCHANGED <<ghost_top_left, consumed>>
        ELSE IF s.gtl = None
        THEN /\ Finish("NoGhostSpawn")
             /\ UNCHANGED <<ghost_top_left, consumed>>
        ELSE /\ ghost_top_left' = s.gtl
             /\ consumed' = s.cons
             /\ pc' = "pac"
             /\ UNCHANGED result
  /\ UNCHANGED <<text, readable, run, rows, width, height, pacman_loc, warp_counts, pending, game, first, delivered>>

FindPacSpawn ==
  /\ pc = "pac"
  /\ \E s \in {PacScan(rows, width, height, 0, None, consumed)} :
        IF s.status # "end"
        THEN /\ Finish(s.status)
             /\ UNCHANGED <<pacman_loc, consumed>>
        ELSE IF StrayChar(rows, s.cons, "$")
        THEN /\ Finish("InvalidPacSpawn")
             /\ UNCHANGED <<pacman_loc, consumed>>
        ELSE IF s.loc = None
        THEN /\ Finish("NoPacSpawn")
             /\ UNCHANGED <<pacman_loc, consumed>>
        ELSE /\ pacman_loc' = s.loc
             /\ consumed' = s.cons
             /\ pc' = "warps"
             /\ UNCHANGED result
  /\ UNCHANGED <<text, readable, run, rows, width, height, ghost_top_left, warp_counts, pending, game, first, delivered>>

CollectWarps ==
  /\ pc = "warps"
  /\ warp_counts' = WarpCounts(rows, consumed)
  /\ consumed' = MarkWarps(rows, consumed)
  /\ pending' = DOMAIN warp_counts'
  /\ pc' = IF DOMAIN warp_counts' = {} THEN "stray_ghost" ELSE "warp_check"
  /\ UNCHANGED <<text, readable, run, rows, width, height, ghost_top_left, pacman_loc, result, game, first, delivered>>

\* The hash map yields its entries in an unspecified order.
CheckWarpCount ==
  /\ pc = "warp_check"
  /\ \E id \in pending :
       LET e == CountError(id, warp_counts[id])
       IN IF e # "none"
          THEN Finish(e) /\ UNCHANGED pending
          ELSE pending' = StillToVisit(pending, id) /\ UNCHANGED <<pc, result>>
  /\ UNCHANGED <<text, readable, run, rows, width, height, consumed, ghost_top_left, pacman_loc, warp_counts, game, first, delivered>>

CheckWarpIds ==
  /\ pc = "warp_check"
  /\ pending = {}
  /\ LET e == IdsError(warp_counts)
     IN IF e # "none"
        THEN Finish(e)
        ELSE pc' = "stray_ghost" /\ UNCHANGED result
  /\ UNCHANGED <<text, readable, run, rows, width, height, consumed, ghost_top_left, pacman_loc, warp_counts, pending, game, first, delivered>>

CheckStrayGhost ==
  /\ pc = "stray_ghost"
  /\ IF StrayChar(rows, consumed, "@")
     THEN Finish("InvalidGhostSpawn")
     ELSE pc' = "board" /\ UNCHANGED result
  /\ UNCHANGED <<text, readable, run, rows, width, height, consumed, ghost_top_left, pacman_loc, warp_counts, pending, game, first, delivered>>

BuildBoard ==
  /\ pc = "board"
  /\ IF FlatError(rows, width, height) # "none"
     THEN Finish(FlatError(rows, width, height)) /\ UNCHANGED game
     ELSE \E flat \in {Flat(rows, width, height)} :
             IF ShapeError(height, width, flat) # "none"
             THEN Finish(ShapeError(height, width, flat)) /\ UNCHANGED game
             ELSE /\ Finish("Ok")
                  /\ game' = MakeGame(GhostCenter(ghost_top_left), pacman_loc,
                                      FromShapeVec(height, width, flat))
  /\ UNCHANGED <<text, readable, run, rows, width, height, consumed, ghost_top_left, pacman_loc, warp_counts, pending, first, delivered>>

\* Game::from_file, after its call of try_from_file has ended: the Game is
\* handed on, every Err becomes a panic (unwrap_or_else), and a panic inside
\* try_from_file has already unwound through it.
from_file ==
  /\ pc = "done"
  /\ pc' = "returned"
  /\ delivered' = IF result = "Ok" THEN "Game" ELSE "Panic"
  /\ UNCHANGED <<text, readable, run, rows, width, height, consumed, ghost_top_left,
                 pacman_loc, warp_counts, pending, result, game, first>>

\* try_from_file is called a second time on the same path: it reads the file
\* again and starts from fresh locals.
ParseAgain ==
  /\ pc = "returned"
  /\ run = 1
  /\ run' = 2
  /\ first' = [result |-> result, game |-> game, delivered |-> delivered]
  /\ pc' = "read"
  /\ rows' = <<>> /\ width' = 0 /\ height' = 0 /\ consumed' = <<>>
  /\ ghost_top_left' = None /\ pacman_loc' = None
  /\ warp_counts' = <<>> /\ pending' = {}
  /\ result' = "none" /\ game' = NoGame
  /\ delivered' = "none"
  /\ UNCHANGED <<text, readable>>

Next ==
  \/ ReadLevel
  \/ FindGhostSpawn
  \/ FindPacSpawn
  \/ CollectWarps
  \/ CheckWarpCount
  \/ CheckWarpIds
  \/ CheckStrayGhost
  \/ BuildBoard
  \/ from_file
  \/ ParseAgain

Spec == Init /\ [][Next]_vars

\* ------------------------------------------------- vocabulary of the claims
\* Read off the grid itself (sets of cells), not off the scans.
Done == pc = "done"
IsGrid ==
  /\ rows # <<>>
  /\ Len(rows[1]) > 0
  /\ \A i \in 1..Len(rows) : Len(rows[i]) = Len(rows[1])
W == Len(rows[1])
H == Len(rows)
Ch(p) == rows[p[2] + 1][p[1] + 1]
Cells == (0..(W - 1)) \X (0..(H - 1))
At(c) == {p \in Cells : Ch(p) = c}
RowMajorBefore(p, q) == p[2] < q[2] \/ (p[2] = q[2] /\ p[1] < q[1])

Blocks ==
  {b \in (0..(W - 8)) \X (0..(H - 5)) : \A p \in Rect(b[1], b[2], 8, 5) : Ch(p) = "@"}
BlockCells(b) == Rect(b[1], b[2], 8, 5)
TheBlock == CHOOSE b \in Blocks : TRUE
TwoDisjointBlocks ==
  \E b1 \in Blocks : \E b2 \in Blocks : BlockCells(b1) \cap BlockCells(b2) = {}
GhostValid == Cardinality(Blocks) = 1 /\ At("@") = BlockCells(TheBlock)

GhostErrors == {"NoGhostSpawn", "MultipleGhostSpawns", "InvalidGhostSpawn"}
PacErrors == {"NoPacSpawn", "MultiplePacSpawns", "InvalidPacSpawn"}

\* Maximal horizontal runs of '$'; a run of length n holds n \div 2 pairs of
\* the row-major scan.
RunStarts == {p \in At("$") : p[1] = 0 \/ Ch(<<p[1] - 1, p[2]>>) # "$"}
RunLen(p) ==
  CHOOSE n \in 1..W :
    /\ \A i \in 0..(n - 1) : p[1] + i < W /\ Ch(<<p[1] + i, p[2]>>) = "$"
    /\ (p[1] + n = W \/ Ch(<<p[1] + n, p[2]>>) # "$")
ScanPairs ==
  UNION {{<<p[1] + 2 * i, p[2]>> : i \in 0..((RunLen(p) \div 2) - 1)} : p \in RunStarts}
FirstPair == CHOOSE q \in ScanPairs : \A r \in ScanPairs : r = q \/ RowMajorBefore(q, r)
PairCells(q) == {q, <<q[1] + 1, q[2]>>}
PacValid == \E q \in Cells : At("$") = PairCells(q) /\ q[1] + 1 < W

DigitCount(d) == Cardinality(At(DigitChar(d)))
UsedDigits == {d \in 0..9 : DigitCount(d) > 0}
WarpRule ==
  \/ UsedDigits = {}
  \/ \E k \in 1..9 : UsedDigits = 1..k /\ \A d \in 1..k : DigitCount(d) = 2

TableChars == {" ", "#", "-", "!", "$", "@", "1", "2", "3", "4", "5", "6", "7", "8", "9"}
AllInTable == \A p \in Cells : Ch(p) \in TableChars

\* ------------------------------------------------------------------- C1
\* C1: every parse ends with a Level or with one error kind of the taxonomy;
\* it never ends in a crash (an index panic), whatever the grid's size.
C1_NoCrash == Done => result \in {"Ok"} \cup ErrorKinds

\* ------------------------------------------------------------------- C2
\* C2: errors are reported in stage order: a grid with a ghost-spawn defect
\* and another defect reports the ghost-spawn error; a Pac-spawn defect is
\* reported before a warp defect, and a warp defect before InvalidCharacters.
C2_StageOrder ==
  (Done /\ IsGrid /\ result # "Panic") =>
    /\ (~GhostValid /\ (~PacValid \/ ~WarpRule \/ ~AllInTable)) => result \in GhostErrors
    /\ (GhostValid /\ ~PacValid /\ ~WarpRule) => result \in PacErrors
    /\ (GhostValid /\ PacValid /\ ~WarpRule /\ ~AllInTable) => result = "InvalidWarp"

\* ------------------------------------------------------------------- C3
\* C3: on an otherwise valid grid, no '@' gives NoGhostSpawn, two disjoint
\* solid 8x5 blocks give MultipleGhostSpawns, and '@' cells that form a
\* malformed block, or a block plus a stray '@', give InvalidGhostSpawn.
C3_GhostClassification ==
  (Done /\ IsGrid /\ result # "Panic" /\ PacValid /\ WarpRule /\ AllInTable) =>
    /\ At("@") = {} => result = "NoGhostSpawn"
    /\ TwoDisjointBlocks => result = "MultipleGhostSpawns"
    /\ (At("@") # {} /\ ~TwoDisjointBlocks /\ ~GhostValid) => result = "InvalidGhostSpawn"

\* ------------------------------------------------------------------- C4
\* C4: with one ghost block found, a single '$$' pair and no other '$'
\* passes the Pac stage with PacSpawn at the pair's left cell; no '$' gives
\* NoPacSpawn; a second disjoint pair in the scan gives MultiplePacSpawns;
\* otherwise any '$' outside the accepted pair gives InvalidPacSpawn.
C4_PacClassification ==
  (Done /\ IsGrid /\ Cardinality(Blocks) = 1) =>
    /\ PacValid =>
         /\ result \notin PacErrors
         /\ pacman_loc \in Cells /\ At("$") = PairCells(pacman_loc)
         /\ result = "Ok" => game.pacman_loc = pacman_loc
    /\ At("$") = {} => result = "NoPacSpawn"
    /\ Cardinality(ScanPairs) >= 2 => result = "MultiplePacSpawns"
    /\ (Cardinality(ScanPairs) = 1 /\ At("$") # PairCells(FirstPair))
         => result = "InvalidPacSpawn"
    /\ (Cardinality(ScanPairs) = 0 /\ At("$") # {}) => result = "InvalidPacSpawn"

C4_Witness ==
  /\ Done /\ IsGrid /\ Cardinality(Blocks) = 1
  /\ result = "InvalidPacSpawn"
  /\ Cardinality(ScanPairs) = 1
  /\ \E p \in At("$") : p[2] = FirstPair[2] /\ p[1] = FirstPair[1] + 2

\* ------------------------------------------------------------------- C5
\* C5: with valid ghost and Pac spawns, the warp stage passes exactly when no
\* digit occurs or the digits used are 1..k, each in exactly two cells;
\* otherwise the parse fails with InvalidWarp.
C5_WarpValidation ==
  (Done /\ IsGrid /\ Cardinality(Blocks) = 1 /\ PacValid) =>
    IF WarpRule
    THEN result \in {"Ok", "InvalidCharacters", "InvalidGhostSpawn"}
    ELSE result = "InvalidWarp"

C5_Witness ==
  /\ Done /\ IsGrid /\ Cardinality(Blocks) = 1 /\ PacValid
  /\ result = "InvalidWarp"
  /\ UsedDigits = {1, 3}
  /\ DigitCount(1) = 2 /\ DigitCount(3) = 2

\* ------------------------------------------------------------------- C6
\* C6: a successful parse of a grid with warp digits returns a warp map with
\* one entry per digit id, holding the two cells of that digit in row-major
\* order of appearance.
FirstSeen(d) ==
  CHOOSE p \in At(DigitChar(d)) : \A q \in At(DigitChar(d)) : q = p \/ RowMajorBefore(p, q)
SecondSeen(d) == CHOOSE p \in At(DigitChar(d)) : p # FirstSeen(d)
ExpectedWarps == [d \in UsedDigits |-> <<FirstSeen(d), SecondSeen(d)>>]

C6_WarpMap ==
  (Done /\ result = "Ok" /\ UsedDigits # {}) =>
    /\ "warps" \in DOMAIN game
    /\ game.warps = ExpectedWarps

\* ------------------------------------------------------------------- C7
ClaimedCode(c) ==
  CASE c = " " -> 0 [] c = "#" -> 1 [] c = "-" -> 2 [] c = "!" -> 3
    [] c = "$" -> 0 [] c = "@" -> 1
    [] OTHER -> 0 - (CHOOSE d \in 1..9 : DigitChar(d) = c)

AmendedCode(c) == IF c = "@" THEN 0 ELSE ClaimedCode(c)

BoardShape ==
  /\ DOMAIN game.board = 1..H
  /\ \A y \in 1..H : DOMAIN game.board[y] = 1..W

\* C7 as stated: the board has the grid's shape, every cell holds the code of
\* its character, with '@' -> 1, and an unlisted character on a grid that
\* passes the earlier stages gives InvalidCharacters.
C7_EncodingAsStated ==
  /\ (Done /\ result = "Ok") =>
       BoardShape /\ \A p \in Cells : game.board[p[2] + 1][p[1] + 1] = ClaimedCode(Ch(p))
  /\ result # "ConversionToArray"
  /\ (Done /\ IsGrid /\ GhostValid /\ PacValid /\ WarpRule /\ ~AllInTable)
       => result = "InvalidCharacters"

\* C7 (amended): the same, with '@' -> 0.
C7_Encoding ==
  /\ (Done /\ result = "Ok") =>
       BoardShape /\ \A p \in Cells : game.board[p[2] + 1][p[1] + 1] = AmendedCode(Ch(p))
  /\ result # "ConversionToArray"
  /\ (Done /\ IsGrid /\ GhostValid /\ PacValid /\ WarpRule /\ ~AllInTable)
       => result = "InvalidCharacters"

C7_Witness ==
  /\ Done /\ result = "Ok"
  /\ \A c \in {" ", "#", "-", "!", "$", "@", "1", "2"} : At(c) # {}

\* ------------------------------------------------------------------- C8
Twice(p) == <<2 * p[1], 2 * p[2]>>
IsFixture == text = Unlines(Fixture)

\* C8: in half-tile units, the returned GhostSpawn is the block's top-left,
\* Pac-Man stands at (px + 0.5, py) and the ghosts at four distinct offsets;
\* on the fixture GhostSpawn = (1, 2) and PacSpawn = (7, 7).
C8_PlacementAsStated ==
  (Done /\ result = "Ok") =>
    LET g == TheBlock
        q == FirstPair
    IN /\ game.ghost_spawn = g
       /\ Twice(game.pacman_loc) = <<2 * q[1] + 1, 2 * q[2]>>
       /\ Twice(game.blinky_loc) = <<2 * g[1] + 7, 2 * g[2] - 2>>
       /\ Twice(game.pinky_loc) = <<2 * g[1] + 7, 2 * g[2] + 4>>
       /\ Twice(game.inky_loc) = <<2 * g[1] + 3, 2 * g[2] + 4>>
       /\ Twice(game.clyde_loc) = <<2 * g[1] + 11, 2 * g[2] + 4>>
       /\ IsFixture => game.ghost_spawn = <<1, 2>> /\ q = <<7, 7>>

\* ------------------------------------------------------------------- C9
\* C9: the second parse of the same content ends as the first did, same
\* error kind or same Level, whatever order the warp counts are visited in.
C9_Determinism ==
  (Done /\ run = 2) => (result = first.result /\ game = first.game)

C9_Witness ==
  /\ Done /\ run = 2 /\ result = "InvalidWarp"
  /\ Cardinality({d \in DOMAIN warp_counts : warp_counts[d] # 2}) >= 2
  /\ \E d \in DOMAIN warp_counts : warp_counts[d] = 2

\* ------------------------------------------------------------------ C10
\* C10 as stated: rows of differing lengths give LevelNotRectangular, also
\* when the first line is empty; no lines or only empty lines give LevelEmpty.
C10_IngestionAsStated ==
  (Done /\ readable) =>
    /\ (\E i \in 1..Len(rows) : \E j \in 1..Len(rows) : Len(rows[i]) # Len(rows[j]))
         => result = "LevelNotRectangular"
    /\ (\A i \in 1..Len(rows) : Len(rows[i]) = 0) => result = "LevelEmpty"

\* C10 (amended): no lines or an empty first line give LevelEmpty; a
\* non-empty first line and a row of another length give LevelNotRectangular;
\* both whatever the rows contain.
C10_Ingestion ==
  (Done /\ readable) =>
    /\ (rows = <<>> \/ (rows # <<>> /\ Len(rows[1]) = 0)) => result = "LevelEmpty"
    /\ (rows # <<>> /\ Len(rows[1]) > 0
          /\ \E i \in 1..Len(rows) : Len(rows[i]) # Len(rows[1]))
         => result = "LevelNotRectangular"

C10_Witness ==
  /\ Done /\ readable /\ result = "LevelEmpty"
  /\ Len(rows) = 2 /\ Len(rows[1]) = 0 /\ rows[2] = <<"@">>
====
